---- MODULE Spec2Model ----
(***************************************************************************)
(* tmignore: the matching-and-traversal engine (src/src/scanner.rs), the   *)
(* pattern registry (src/src/patterns.rs), the exclusion-path resolver and *)
(* the tilde functions (src/src/config.rs), and the run command            *)
(* (src/src/main.rs) with the tmutil calls (src/src/excluder.rs) and the   *)
(* saved run state (src/src/state.rs).                                     *)
(*                                                                         *)
(* Representation.                                                         *)
(*  - A path, and a path string of the configuration, is the sequence of   *)
(*    its components.  An absolute path starts with the component "/", a   *)
(*    home-relative string with the component "~": "~/.cargo" is           *)
(*    <<"~", ".cargo">>, "/opt/homebrew" is <<"/", "opt", "homebrew">>.    *)
(*    Equality of sequences is the string equality the resolvers use       *)
(*    (before expansion) and the PathBuf equality the scanner uses (after  *)
(*    expansion).                                                          *)
(*  - The file system is a function from the paths that exist to their     *)
(*    kind: "dir", "file", "link" (a symbolic link) or "denied" (a         *)
(*    directory whose entries cannot be read).                             *)
(*  - A file name or sentinel is a string; chars gives its characters      *)
(*    where the code looks inside it (glob sentinels).                     *)
(*  - The trees drawn for Spec hold directories and regular files, all     *)
(*    readable; those of SpecWalk also hold links and unreadable           *)
(*    directories, those of SpecGlob names with glob metacharacters.  All  *)
(*    names are valid UTF-8; the home directory is /h.                     *)
(*  - Where the code works on the characters of a whole path string        *)
(*    (expand_tilde, contract_tilde: SpecTilde), a string is the sequence  *)
(*    of its characters.                                                   *)
(***************************************************************************)
EXTENDS Integers, Sequences, FiniteSets, TLC

VARIABLES
    config,         \* Config: the five lists of src/src/config.rs:13-30
    fs,             \* the file system: path -> "dir" | "file" | "link" | "denied"
    pc,             \* position in scan_optimized / in the resolver run
    ri,             \* index into config.scan_roots of the root being walked
    start,          \* walkdir IntoIter.start: the root is still to be yielded
    stack,          \* walkdir IntoIter.stack_list: entries left per open directory
    matches,        \* Vec<ScanMatch> being built
    excluded_dirs,  \* HashSet<PathBuf> of directories matched so far
    visited,        \* history: every path the walker has yielded to the loop
    seen,           \* history: path -> how often the walk of the current root yielded it
    mroot,          \* history: for the k-th pattern match, the root index it was found under
    skip_set,       \* let skip_set = build_skip_set(config)
    out,            \* result of the last call of a function run on its own
    arg,            \* argument of that call
    dry_run,        \* cmd_run: the --dry-run flag
    tm_excluded,    \* the paths Time Machine holds as excluded (tmutil's store)
    state_file,     \* the state file: <<>> while there is none, else << its content >>
    mi,             \* cmd_run: index into matches of the match being handled
    newly_excluded, \* cmd_run: Vec<ExcludedEntry>
    already_excluded_count,     \* cmd_run: counter
    error_count,    \* cmd_run: counter
    calls           \* history: the add_exclusion / save_state calls cmd_run has made

runvars == << dry_run, tm_excluded, state_file, mi, newly_excluded,
              already_excluded_count, error_count, calls >>

vars == << config, fs, pc, ri, start, stack, matches, excluded_dirs,
           visited, seen, mroot, skip_set, out, arg, runvars >>

(***************************************************************************)
(* Bounds of the model.                                                    *)
(***************************************************************************)
\* total number of entries over the five lists of a scanned configuration
MaxConfig == 3
\* number of scan roots of a scanned configuration
MaxRoots == 2
\* total number of entries over the lists given to the resolvers
MaxResolve == 3

(***************************************************************************)
(* Generic helpers.                                                        *)
(***************************************************************************)
SeqsUpTo(S, n) == UNION { [1..k -> S] : k \in 0..n }

Range(s) == { s[i] : i \in 1..Len(s) }

Contains(s, x) == \E i \in 1..Len(s) : s[i] = x

IsPrefix(p, q) == Len(p) <= Len(q) /\ SubSeq(q, 1, Len(p)) = p

\* q lies strictly beneath p
Beneath(q, p) == Len(p) < Len(q) /\ IsPrefix(p, q)

(***************************************************************************)
(* Pattern registry.                                                       *)
(***************************************************************************)
Pattern(n, d, s) == [name |-> n, directory |-> d, sentinel |-> s]

builtin_patterns ==
    << Pattern("node", "node_modules", "package.json"),
       Pattern("next", ".next", "package.json"),
       Pattern("nuxt", ".nuxt", "package.json"),
       Pattern("svelte-kit", ".svelte-kit", "package.json"),
       Pattern("angular", ".angular", "package.json"),
       Pattern("parcel", ".parcel-cache", "package.json"),
       Pattern("turbo", ".turbo", "package.json"),
       Pattern("bower", "bower_components", "bower.json"),
       Pattern("yarn", ".yarn", ".yarnrc.yml"),
       Pattern("composer", "vendor", "composer.json"),
       Pattern("bundler", "vendor", "Gemfile"),
       Pattern("cargo", "target", "Cargo.toml"),
       Pattern("go", "vendor", "go.mod"),
       Pattern("maven", "target", "pom.xml"),
       Pattern("gradle", ".gradle", "build.gradle"),
       Pattern("gradle-kts", ".gradle", "build.gradle.kts"),
       Pattern("sbt", "target", "build.sbt"),
       Pattern("swift", ".build", "Package.swift"),
       Pattern("cocoapods", "Pods", "Podfile"),
       Pattern("carthage", "Carthage", "Cartfile"),
       Pattern("flutter", ".dart_tool", "pubspec.yaml"),
       Pattern("pub", ".packages", "pubspec.yaml"),
       Pattern("python-venv", ".venv", "pyproject.toml"),
       Pattern("python-tox", ".tox", "tox.ini"),
       Pattern("python-nox", ".nox", "noxfile.py"),
       Pattern("elixir-deps", "deps", "mix.exs"),
       Pattern("elixir-build", "_build", "mix.exs"),
       Pattern("haskell", ".stack-work", "stack.yaml"),
       Pattern("vagrant", ".vagrant", "Vagrantfile"),
       Pattern("terraform", ".terraform", ".terraform.lock.hcl"),
       Pattern("terragrunt", ".terragrunt-cache", "terragrunt.hcl"),
       Pattern("cdk", "cdk.out", "cdk.json"),
       Pattern("dotnet-bin", "bin", "*.csproj"),
       Pattern("dotnet-obj", "obj", "*.csproj"),
       Pattern("zig", "zig-cache", "build.zig"),
       Pattern("ocaml", "_build", "dune-project"),
       Pattern("godot", ".godot", "project.godot"),
       Pattern("clojure", ".cpcache", "deps.edn"),
       Pattern("renv", "renv", "renv.lock"),
       Pattern("devbox", ".devbox", "devbox.json") >>

builtin_exclude_paths ==
    << <<"~", ".rbenv">>,
       <<"~", ".pyenv">>,
       <<"~", ".nvm">>,
       <<"~", ".asdf">>,
       <<"~", ".local", "share", "mise">>,
       <<"~", ".rustup">>,
       <<"~", ".cargo">>,
       <<"~", ".gradle">>,
       <<"~", ".m2">>,
       <<"~", ".npm">>,
       <<"~", ".pnpm-store">>,
       <<"~", ".cocoapods">>,
       <<"~", ".nuget">>,
       <<"~", "go", "pkg">>,
       <<"~", ".gem">>,
       <<"~", ".hex">>,
       <<"~", ".cpan">>,
       <<"~", ".bun">>,
       <<"~", ".deno">>,
       <<"~", ".yarn">>,
       <<"~", ".npm-global">>,
       <<"~", ".cache", "node">>,
       <<"/", "opt", "homebrew">>,
       <<"/", "nix">>,
       <<"~", ".cache", "nix">>,
       <<"~", ".local", "share", "devbox">>,
       <<"~", "Library", "Containers", "com.docker.docker">>,
       <<"~", ".colima">>,
       <<"~", ".lima">>,
       <<"~", "Library", "Developer", "Xcode", "DerivedData">>,
       <<"~", "Library", "Developer", "Xcode", "iOS DeviceSupport">>,
       <<"~", "Library", "Developer", "Xcode", "watchOS DeviceSupport">>,
       <<"~", "Library", "Developer", "Xcode", "tvOS DeviceSupport">>,
       <<"~", "Library", "Developer", "CoreSimulator", "Devices">> >>

chars ==
    "*.fsproj" :> <<"*", ".", "f", "s", "p", "r", "o", "j">> @@
    "App.?sproj" :> <<"A", "p", "p", ".", "?", "s", "p", "r", "o", "j">> @@
    "App.[cf]sproj" :> <<"A", "p", "p", ".", "[", "c", "f", "]", "s", "p", "r", "o", "j">> @@
    "App[.csproj" :> <<"A", "p", "p", "[", ".", "c", "s", "p", "r", "o", "j">> @@
    "App.csproj" :> <<"A", "p", "p", ".", "c", "s", "p", "r", "o", "j">> @@
    "App.fsproj" :> <<"A", "p", "p", ".", "f", "s", "p", "r", "o", "j">> @@
    "p1" :> <<"p", "1">> @@
    "p[1]" :> <<"p", "[", "1", "]">> @@
    "*.csproj" :> <<"*", ".", "c", "s", "p", "r", "o", "j">> @@
    ".cargo" :> <<".", "c", "a", "r", "g", "o">> @@
    ".terraform.lock.hcl" :> <<".", "t", "e", "r", "r", "a", "f", "o", "r", "m", ".", "l", "o", "c", "k", ".", "h", "c", "l">> @@
    ".yarnrc.yml" :> <<".", "y", "a", "r", "n", "r", "c", ".", "y", "m", "l">> @@
    "Cargo.toml" :> <<"C", "a", "r", "g", "o", ".", "t", "o", "m", "l">> @@
    "Cartfile" :> <<"C", "a", "r", "t", "f", "i", "l", "e">> @@
    "Gemfile" :> <<"G", "e", "m", "f", "i", "l", "e">> @@
    "Package.swift" :> <<"P", "a", "c", "k", "a", "g", "e", ".", "s", "w", "i", "f", "t">> @@
    "Podfile" :> <<"P", "o", "d", "f", "i", "l", "e">> @@
    "Vagrantfile" :> <<"V", "a", "g", "r", "a", "n", "t", "f", "i", "l", "e">> @@
    "bower.json" :> <<"b", "o", "w", "e", "r", ".", "j", "s", "o", "n">> @@
    "build.gradle" :> <<"b", "u", "i", "l", "d", ".", "g", "r", "a", "d", "l", "e">> @@
    "build.gradle.kts" :> <<"b", "u", "i", "l", "d", ".", "g", "r", "a", "d", "l", "e", ".", "k", "t", "s">> @@
    "build.sbt" :> <<"b", "u", "i", "l", "d", ".", "s", "b", "t">> @@
    "build.zig" :> <<"b", "u", "i", "l", "d", ".", "z", "i", "g">> @@
    "cdk.json" :> <<"c", "d", "k", ".", "j", "s", "o", "n">> @@
    "composer.json" :> <<"c", "o", "m", "p", "o", "s", "e", "r", ".", "j", "s", "o", "n">> @@
    "deps.edn" :> <<"d", "e", "p", "s", ".", "e", "d", "n">> @@
    "devbox.json" :> <<"d", "e", "v", "b", "o", "x", ".", "j", "s", "o", "n">> @@
    "dune-project" :> <<"d", "u", "n", "e", "-", "p", "r", "o", "j", "e", "c", "t">> @@
    "go.mod" :> <<"g", "o", ".", "m", "o", "d">> @@
    "h" :> <<"h">> @@
    "missing" :> <<"m", "i", "s", "s", "i", "n", "g">> @@
    "mix.exs" :> <<"m", "i", "x", ".", "e", "x", "s">> @@
    "noxfile.py" :> <<"n", "o", "x", "f", "i", "l", "e", ".", "p", "y">> @@
    "package.json" :> <<"p", "a", "c", "k", "a", "g", "e", ".", "j", "s", "o", "n">> @@
    "pom.xml" :> <<"p", "o", "m", ".", "x", "m", "l">> @@
    "project.godot" :> <<"p", "r", "o", "j", "e", "c", "t", ".", "g", "o", "d", "o", "t">> @@
    "pubspec.yaml" :> <<"p", "u", "b", "s", "p", "e", "c", ".", "y", "a", "m", "l">> @@
    "pyproject.toml" :> <<"p", "y", "p", "r", "o", "j", "e", "c", "t", ".", "t", "o", "m", "l">> @@
    "renv.lock" :> <<"r", "e", "n", "v", ".", "l", "o", "c", "k">> @@
    "stack.yaml" :> <<"s", "t", "a", "c", "k", ".", "y", "a", "m", "l">> @@
    "terragrunt.hcl" :> <<"t", "e", "r", "r", "a", "g", "r", "u", "n", "t", ".", "h", "c", "l">> @@
    "tox.ini" :> <<"t", "o", "x", ".", "i", "n", "i">> @@
    "turbo.json" :> <<"t", "u", "r", "b", "o", ".", "j", "s", "o", "n">> @@
    "vendor" :> <<"v", "e", "n", "d", "o", "r">>

\* the home directory ($HOME)
Home == <<"/", "h">>

SYSTEM_SKIP_PATHS ==
    << <<"~", ".Trash">>, <<"~", "Library">>, <<"/", "System">>, <<"/", "Library">> >>

\* resolve_patterns with the filter looking at the first disabled name only
resolve_patterns_first_only(disable, custom) ==
    SelectSeq(builtin_patterns,
              LAMBDA p : ~(disable # <<>> /\ Head(disable) = p.name)) \o custom

\* resolve_patterns with the disabled names filtered out of the custom patterns too
resolve_patterns_filters_custom(disable, custom) ==
    SelectSeq(builtin_patterns \o custom, LAMBDA p : ~Contains(disable, p.name))

\* builtin_patterns().filter(|p| !disable.iter().any(|d| d == &p.name)), then
\* every custom pattern pushed in order
resolve_patterns(disable, custom) ==
    SelectSeq(builtin_patterns, LAMBDA p : ~Contains(disable, p.name)) \o custom

\* the i-th element, in order, of the indices in S
Nth(S, i) == CHOOSE k \in S : Cardinality({ n \in S : n <= k }) = i

RECURSIVE push_unique(_, _)
\* for x in xs { if !paths.contains(x) { paths.push(x) } }
push_unique(paths, xs) ==
    IF xs = <<>> THEN paths
    ELSE push_unique(IF Contains(paths, Head(xs)) THEN paths ELSE Append(paths, Head(xs)),
                     Tail(xs))

\* resolved_exclude_paths with the extras pushed without the contains check
resolved_exclude_paths_no_dedup(c) ==
    SelectSeq(builtin_exclude_paths,
              LAMBDA p : ~Contains(c.disable_exclude_paths, p)) \o c.extra_exclude_paths

resolved_exclude_paths(c) ==
    push_unique(SelectSeq(builtin_exclude_paths,
                          LAMBDA p : ~Contains(c.disable_exclude_paths, p)),
                c.extra_exclude_paths)

\* resolved_skip_paths without the system paths
resolved_skip_paths_excludes_only(c) == resolved_exclude_paths(c)

resolved_skip_paths(c) ==
    push_unique(SYSTEM_SKIP_PATHS, resolved_exclude_paths(c))

expand_tilde(path) ==
    IF Len(path) >= 1 /\ path[1] = "~" THEN Home \o Tail(path) ELSE path

\* build_skip_set without expand_tilde
build_skip_set_unexpanded(c) == Range(resolved_skip_paths(c))

build_skip_set(c) == { expand_tilde(p) : p \in Range(resolved_skip_paths(c)) }

build_directory_index(pats) ==
    [ d \in { pats[i].directory : i \in 1..Len(pats) } |->
        SelectSeq(pats, LAMBDA p : p.directory = d) ]

(***************************************************************************)
(* File system.                                                            *)
(***************************************************************************)
\* every symbolic link of the trees drawn points to ~/real; ~/real itself is
\* never a link
LinkTarget == Home \o << "real" >>

\* the proper ancestors of p that are symbolic links, by their length
link_ancestors(p) ==
    { k \in 1..(Len(p) - 1) :
        SubSeq(p, 1, k) \in DOMAIN fs /\ fs[SubSeq(p, 1, k)] = "link" }

RECURSIVE entry_path(_)
\* where the entry named by p lies: the links among p's ancestors are
\* resolved, the first one first, p's last component is not
entry_path(p) ==
    IF link_ancestors(p) = {} THEN p
    ELSE LET k == CHOOSE j \in link_ancestors(p) : \A i \in link_ancestors(p) : j <= i
         IN  entry_path(LinkTarget \o SubSeq(p, k + 1, Len(p)))

\* fs::symlink_metadata: the kind of the entry itself, a link staying a link
file_type(p) == IF entry_path(p) \in DOMAIN fs THEN fs[entry_path(p)] ELSE "none"

\* where p leads once the last component is followed too (fs::metadata)
followed(p) == IF file_type(p) = "link" THEN LinkTarget ELSE entry_path(p)

\* Path::exists: follows links, false for a link whose target is missing
exists(p) == followed(p) \in DOMAIN fs

\* entry.file_type().is_dir(): a directory, readable or not; never a link
is_dir(p) == file_type(p) \in { "dir", "denied" }

\* Path::parent: None for the root directory "/"
has_parent(p) == Len(p) > 1

parent(p) == SubSeq(p, 1, Len(p) - 1)

file_name(p) == p[Len(p)]

\* the entries of directory p, each under p's own path
read_dir(p) ==
    LET d == followed(p)
    IN  { Append(p, q[Len(q)]) : q \in { x \in DOMAIN fs : Len(x) = Len(d) + 1 /\ IsPrefix(d, x) } }

(***************************************************************************)
(* Sentinel check.                                                         *)
(***************************************************************************)
has_glob_meta(s) == \E i \in 1..Len(chars[s]) : chars[s][i] \in {"*", "?", "["}

\* glob::Pattern::new at a `[`: the places where the `]` that closes the class
\* may stand (a class holds at least one character, after the `!` if any)
class_ends(pat) ==
    { k \in (IF Len(pat) >= 2 /\ pat[2] = "!" THEN 4 ELSE 3)..Len(pat) : pat[k] = "]" }

\* the first of them
class_end(pat) == CHOOSE k \in class_ends(pat) : \A j \in class_ends(pat) : k <= j

\* the class pat starts with holds character c ([abc] and [!abc]; no class of
\* the names drawn holds a range a-z)
class_has(pat, c) ==
    IF pat[2] = "!"
    THEN \A i \in 3..(class_end(pat) - 1) : pat[i] # c
    ELSE \E i \in 2..(class_end(pat) - 1) : pat[i] = c

RECURSIVE valid_glob(_)
\* glob::Pattern::new is Ok: every `[` opens a class that is closed
\* (no name drawn holds `**`, the other way a pattern can be invalid)
valid_glob(pat) ==
    IF pat = <<>> THEN TRUE
    ELSE IF Head(pat) = "["
         THEN class_ends(pat) # {} /\ valid_glob(SubSeq(pat, class_end(pat) + 1, Len(pat)))
    ELSE valid_glob(Tail(pat))

RECURSIVE glob_match(_, _)
\* glob::Pattern::matches for `*`, `?`, `[..]` and literal characters
glob_match(pat, name) ==
    IF pat = <<>> THEN name = <<>>
    ELSE IF Head(pat) = "*"
         THEN glob_match(Tail(pat), name)
              \/ (name # <<>> /\ glob_match(pat, Tail(name)))
    ELSE IF Head(pat) = "?"
         THEN name # <<>> /\ glob_match(Tail(pat), Tail(name))
    ELSE IF Head(pat) = "["
         THEN /\ name # <<>>
              /\ class_has(pat, Head(name))
              /\ glob_match(SubSeq(pat, class_end(pat) + 1, Len(pat)), Tail(name))
    ELSE name # <<>> /\ Head(name) = Head(pat) /\ glob_match(Tail(pat), Tail(name))

\* one component of the pattern glob::glob is given against one file name: a
\* component without metacharacters is taken literally
component_matches(c, name) ==
    IF has_glob_meta(c) THEN glob_match(chars[c], chars[name]) ELSE c = name

\* glob::glob(pattern): the existing paths that match the pattern component by
\* component, below the root directory
glob(pattern) ==
    { q \in DOMAIN fs :
        /\ Len(q) = Len(pattern)
        /\ \A i \in 2..Len(q) : component_matches(pattern[i], q[i]) }

\* the glob pattern is parent.join(sentinel), the whole path: an invalid
\* pattern is an Err and gives false
sentinel_exists(par, sentinel) ==
    IF has_glob_meta(sentinel)
    THEN LET pattern == Append(par, sentinel)
         IN  /\ \A i \in 2..Len(pattern) : valid_glob(chars[pattern[i]])
             /\ glob(pattern) # {}
    ELSE exists(Append(par, sentinel))

(***************************************************************************)
(* walkdir: WalkDir::new(root).follow_links(false).into_iter().           *)
(* The stack holds, for each directory opened and not yet left, the        *)
(* entries it has still to yield; the order in which a directory yields    *)
(* its entries is the order of readdir, which nothing fixes.               *)
(***************************************************************************)
RECURSIVE trim(_)
\* IntoIter::next pops every directory whose entries are used up
trim(st) ==
    IF st # <<>> /\ st[Len(st)] = {} THEN trim(SubSeq(st, 1, Len(st) - 1)) ELSE st

\* the failed fs::read_dir of directory p, kept in its DirList until asked for
read_dir_error(p) == << "!" >> \o p

is_error(e) == e[1] = "!"

\* IntoIter::push: the DirList of directory e; a directory that cannot be read
\* gets a list that yields the error and nothing else
dir_list(e) ==
    IF fs[followed(e)] = "denied" THEN { read_dir_error(e) } ELSE read_dir(e)

\* handle_entry as with follow_links(true): a link to a directory is opened
\* wherever it is met
handle_entry_follow_links(st, e) ==
    IF is_dir(e) \/ (file_type(e) = "link" /\ exists(e)
                        /\ fs[followed(e)] \in { "dir", "denied" })
    THEN Append(st, dir_list(e))
    ELSE st

\* IntoIter::handle_entry: a directory that is yielded is opened; so is the
\* root entry (st is empty: depth 0) when it is a link to a directory
handle_entry(st, e) ==
    IF is_dir(e) \/ (st = <<>> /\ file_type(e) = "link" /\ exists(e)
                        /\ fs[followed(e)] \in { "dir", "denied" })
    THEN Append(st, dir_list(e))
    ELSE st

\* IntoIter::skip_current_dir
skip_current_dir(st) == IF st = <<>> THEN st ELSE SubSeq(st, 1, Len(st) - 1)

\* take entry e from the directory on top of the stack
take(st, e) == [st EXCEPT ![Len(st)] = @ \ {e}]

(***************************************************************************)
(* scan_optimized: the body of the walk loop for one entry.                *)
(***************************************************************************)
\* cmd_run: the active patterns handed to scan_optimized
patterns == resolve_patterns(config.disable_patterns, config.custom_patterns)

dir_index == build_directory_index(patterns)

\* first_match without the break: the last satisfied candidate is recorded
last_match(candidates, par) ==
    LET ok == SelectSeq(candidates, LAMBDA p : sentinel_exists(par, p.sentinel))
    IN  IF ok = <<>> THEN <<>> ELSE << ok[Len(ok)] >>

\* for pattern in candidates { if sentinel_exists(parent, ..) { ..; break } }
first_match(candidates, par) ==
    LET ok == SelectSeq(candidates, LAMBDA p : sentinel_exists(par, p.sentinel))
    IN  IF ok = <<>> THEN <<>> ELSE << Head(ok) >>

\* matching with the sentinel looked for inside the directory itself
matching_in_self(path) ==
    IF file_name(path) \in DOMAIN dir_index
    THEN first_match(dir_index[file_name(path)], path)
    ELSE <<>>

\* the pattern that matches directory path, as a sequence of at most one
matching(path) ==
    IF file_name(path) \in DOMAIN dir_index /\ has_parent(path)
    THEN first_match(dir_index[file_name(path)], parent(path))
    ELSE <<>>

\* entry_outcome without the excluded_dirs check
entry_outcome_no_already(e, excl) ==
    IF ~is_dir(e) THEN [kind |-> "continue"]
    ELSE IF e \in skip_set THEN [kind |-> "skip"]
    ELSE IF matching(e) # <<>>
         THEN [kind |-> "match", pattern_name |-> matching(e)[1].name]
    ELSE [kind |-> "descend"]

\* entry_outcome with the pattern check ahead of the skip-set check
entry_outcome_match_first(e, excl) ==
    IF ~is_dir(e) THEN [kind |-> "continue"]
    ELSE IF e \in excl THEN [kind |-> "already"]
    ELSE IF matching(e) # <<>>
         THEN [kind |-> "match", pattern_name |-> matching(e)[1].name]
    ELSE IF e \in skip_set THEN [kind |-> "skip"]
    ELSE [kind |-> "descend"]

\* what the loop body does with entry e, given the directories matched so far
\* (entry.file_name().to_str() is Some for every name of the trees drawn)
entry_outcome(e, excl) ==
    IF ~is_dir(e) THEN [kind |-> "continue"]
    ELSE IF e \in skip_set THEN [kind |-> "skip"]
    ELSE IF e \in excl THEN [kind |-> "already"]
    ELSE IF matching(e) # <<>>
         THEN [kind |-> "match", pattern_name |-> matching(e)[1].name]
    ELSE [kind |-> "descend"]

\* prunes without the skip_current_dir() of a match
prunes_unless_match(o) == o.kind \in {"skip", "already"}

\* prunes without the skip_current_dir() of a skip-set hit
prunes_unless_skip(o) == o.kind \in {"already", "match"}

\* prunes with skip_current_dir() called for every directory
prunes_every_dir(o) == o.kind # "continue"

\* the outcomes after which the loop calls walker.skip_current_dir()
prunes(o) == o.kind \in {"skip", "already", "match"}

ScanMatch(p, n) == [path |-> p, pattern_name |-> n]

\* push with the new match put in front of the earlier ones
push_front(v, x) == <<x>> \o v

\* matches.push(..)
push(v, x) == Append(v, x)

\* exclude_matches without the path.exists() check
exclude_matches_unchecked(c) ==
    LET xs == resolved_exclude_paths(c)
    IN  [ i \in 1..Len(xs) |-> ScanMatch(expand_tilde(xs[i]), "exclude_path") ]

\* the exclude-path pass
exclude_matches(c) ==
    LET xs == resolved_exclude_paths(c)
        existing == SelectSeq(xs, LAMBDA s : exists(expand_tilde(s)))
    IN  [ i \in 1..Len(existing) |-> ScanMatch(expand_tilde(existing[i]), "exclude_path") ]

root == expand_tilde(config.scan_roots[ri])

(***************************************************************************)
(* Inputs of a scan.                                                       *)
(***************************************************************************)
RootChoices == { <<"~">>, <<"~", "vendor">>, <<"~", "vendor", "vendor">> }

ExtraChoices == { <<"~", "vendor">>, <<"/", "h", "vendor">> }

DisableExcludeChoices == { <<"~", ".cargo">> }

DisablePatternChoices == { "composer" }

CustomChoices == { Pattern("my-vendor", "vendor", "Gemfile") }

ConfigSize(c) ==
    Len(c.scan_roots) + Len(c.extra_exclude_paths) + Len(c.disable_exclude_paths)
    + Len(c.disable_patterns) + Len(c.custom_patterns)

ScanConfigs ==
    { c \in [ scan_roots : SeqsUpTo(RootChoices, MaxRoots),
              extra_exclude_paths : SeqsUpTo(ExtraChoices, MaxConfig),
              disable_exclude_paths : SeqsUpTo(DisableExcludeChoices, MaxConfig),
              disable_patterns : SeqsUpTo(DisablePatternChoices, MaxConfig),
              custom_patterns : SeqsUpTo(CustomChoices, MaxConfig) ] :
        ConfigSize(c) <= MaxConfig }

Vendor == Home \o <<"vendor">>

BaseNodes == { <<"/">>, Home }

OptFiles == { Home \o <<"composer.json">>, Home \o <<"Gemfile">>,
              Vendor \o <<"composer.json">> }

OptDirs == { Vendor \o <<"vendor">>, Home \o <<".cargo">> }

\* the tree with the optional nodes S, where ~/vendor is of kind vk
Tree(S, vk) ==
    [ p \in BaseNodes \cup S |->
        IF p = Vendor THEN vk ELSE IF p \in OptFiles THEN "file" ELSE "dir" ]

ScanTrees ==
    { Tree(S, vk) : <<S, vk>> \in
        { sv \in (SUBSET (OptFiles \cup OptDirs \cup {Vendor})) \X {"dir", "file"} :
            /\ \A p \in sv[1] : Beneath(p, Vendor) => (Vendor \in sv[1] /\ sv[2] = "dir")
            /\ Vendor \notin sv[1] => sv[2] = "dir" } }

NoOut == [kind |-> "none"]

\* cmd_run has not started: empty list, counters at 0, nothing excluded or saved
NoRun ==
    /\ arg = <<>>
    /\ dry_run = FALSE
    /\ tm_excluded = {}
    /\ state_file = <<>>
    /\ mi = 1
    /\ newly_excluded = <<>>
    /\ already_excluded_count = 0
    /\ error_count = 0
    /\ calls = {}

(***************************************************************************)
(* scan_optimized as a state machine.                                      *)
(***************************************************************************)
Init ==
    /\ config \in ScanConfigs
    /\ fs \in ScanTrees
    /\ pc = "root"
    /\ ri = 1
    /\ start = FALSE
    /\ stack = <<>>
    /\ matches = <<>>
    /\ excluded_dirs = {}
    /\ visited = {}
    /\ seen = <<>>
    /\ mroot = <<>>
    /\ skip_set = build_skip_set(config)
    /\ out = NoOut
    /\ NoRun

\* RootMissing with the missing root ending the loop over the roots
RootMissing_breaks ==
    /\ pc = "root"
    /\ ri <= Len(config.scan_roots)
    /\ ~exists(root)
    /\ ri' = Len(config.scan_roots) + 1
    /\ UNCHANGED << config, fs, pc, start, stack, matches, excluded_dirs,
                    visited, seen, mroot, skip_set, out, arg >>
    /\ UNCHANGED runvars

\* if !root.exists() { warning; continue }
RootMissing ==
    /\ pc = "root"
    /\ ri <= Len(config.scan_roots)
    /\ ~exists(root)
    /\ ri' = ri + 1
    /\ UNCHANGED << config, fs, pc, start, stack, matches, excluded_dirs,
                    visited, seen, mroot, skip_set, out, arg >>
    /\ UNCHANGED runvars

\* let mut walker = WalkDir::new(&root).follow_links(false).into_iter()
RootStart ==
    /\ pc = "root"
    /\ ri <= Len(config.scan_roots)
    /\ exists(root)
    /\ pc' = "walk"
    /\ start' = TRUE
    /\ stack' = <<>>
    /\ seen' = <<>>
    /\ UNCHANGED << config, fs, ri, matches, excluded_dirs, visited, mroot, skip_set, out, arg >>
    /\ UNCHANGED runvars

\* the loop body for the entry e that walker.next() yields, st being the
\* walker's stack once e is taken from it
Process(e, st) ==
    LET o   == entry_outcome(e, excluded_dirs)
        st1 == handle_entry(st, e)
    IN  /\ stack' = IF prunes(o) THEN skip_current_dir(st1) ELSE st1
        /\ start' = FALSE
        /\ visited' = visited \cup {e}
        /\ seen' = IF e \in DOMAIN seen THEN [seen EXCEPT ![e] = @ + 1]
                   ELSE seen @@ (e :> 1)
        /\ IF o.kind = "match"
           THEN /\ excluded_dirs' = excluded_dirs \cup {e}
                /\ matches' = push(matches, ScanMatch(e, o.pattern_name))
                /\ mroot' = Append(mroot, ri)
           ELSE UNCHANGED << excluded_dirs, matches, mroot >>
        /\ UNCHANGED << config, fs, pc, ri, skip_set, out, arg >>
        /\ UNCHANGED runvars

\* one turn of the loop: walker.next() is Some(Ok(entry))
Visit ==
    /\ pc = "walk"
    /\ IF start
       THEN Process(root, stack)
       ELSE /\ trim(stack) # <<>>
            /\ \E e \in trim(stack)[Len(trim(stack))] :
                  ~is_error(e) /\ Process(e, take(trim(stack), e))

\* VisitError with the error ending the walk of the root
VisitError_breaks ==
    /\ pc = "walk"
    /\ ~start
    /\ trim(stack) # <<>>
    /\ \E e \in trim(stack)[Len(trim(stack))] : is_error(e)
    /\ pc' = "root"
    /\ ri' = ri + 1
    /\ stack' = <<>>
    /\ UNCHANGED << config, fs, start, matches, excluded_dirs, visited, seen, mroot, skip_set, out, arg >>
    /\ UNCHANGED runvars

\* one turn of the loop: walker.next() is Some(Err(err)): warning, continue
VisitError ==
    /\ pc = "walk"
    /\ ~start
    /\ trim(stack) # <<>>
    /\ \E e \in trim(stack)[Len(trim(stack))] :
          is_error(e) /\ stack' = take(trim(stack), e)
    /\ UNCHANGED << config, fs, pc, ri, start, matches, excluded_dirs, visited, seen, mroot, skip_set, out, arg >>
    /\ UNCHANGED runvars

\* WalkEnd with the loop over the roots staying at the same root
WalkEnd_same_root ==
    /\ pc = "walk"
    /\ ~start
    /\ trim(stack) = <<>>
    /\ pc' = "root"
    /\ stack' = <<>>
    /\ UNCHANGED << config, fs, ri, start, matches, excluded_dirs, visited, seen, mroot, skip_set, out, arg >>
    /\ UNCHANGED runvars

\* walker.next() is None: break, and on to the next root
WalkEnd ==
    /\ pc = "walk"
    /\ ~start
    /\ trim(stack) = <<>>
    /\ pc' = "root"
    /\ ri' = ri + 1
    /\ stack' = <<>>
    /\ UNCHANGED << config, fs, start, matches, excluded_dirs, visited, seen, mroot, skip_set, out, arg >>
    /\ UNCHANGED runvars

\* all roots walked: the resolved exclude paths that exist are appended
ExcludePass ==
    /\ pc = "root"
    /\ ri > Len(config.scan_roots)
    /\ matches' = matches \o exclude_matches(config)
    /\ pc' = "done"
    /\ UNCHANGED << config, fs, ri, start, stack, excluded_dirs, visited, seen, mroot, skip_set, out, arg >>
    /\ UNCHANGED runvars

Next == RootMissing \/ RootStart \/ Visit \/ WalkEnd \/ ExcludePass

Spec == Init /\ [][Next]_vars

(***************************************************************************)
(* The resolvers on their own: a configuration is drawn, and one of        *)
(* resolved_exclude_paths, resolved_skip_paths and resolve_patterns is     *)
(* called on it.                                                           *)
(***************************************************************************)
ResolveExtraChoices == { <<"~", "Movies">>, <<"~", ".cargo">>, <<"~", "Library">> }

ResolveDisableChoices == { <<"~", ".cargo">>, <<"~", "Movies">> }

ResolvePatternNames == { "node", "cargo", "no-such-pattern" }

ResolveCustomChoices ==
    { Pattern("my-build", "dist", "turbo.json"),
      Pattern("node", "node_modules", "package.json") }

ResolveConfigs ==
    { c \in [ scan_roots : { <<>> },
              extra_exclude_paths : SeqsUpTo(ResolveExtraChoices, MaxResolve),
              disable_exclude_paths : SeqsUpTo(ResolveDisableChoices, MaxResolve),
              disable_patterns : SeqsUpTo(ResolvePatternNames, MaxResolve),
              custom_patterns : SeqsUpTo(ResolveCustomChoices, MaxResolve) ] :
        ConfigSize(c) <= MaxResolve }

InitResolve ==
    /\ config \in ResolveConfigs
    /\ fs = Tree({}, "dir")
    /\ pc = "call"
    /\ ri = 1
    /\ start = FALSE
    /\ stack = <<>>
    /\ matches = <<>>
    /\ excluded_dirs = {}
    /\ visited = {}
    /\ seen = <<>>
    /\ mroot = <<>>
    /\ skip_set = {}
    /\ out = NoOut
    /\ NoRun

ResolverFrame ==
    /\ UNCHANGED << config, fs, ri, start, stack, matches, excluded_dirs, visited, seen,
                    mroot, skip_set, arg >>
    /\ UNCHANGED runvars

CallResolvedExcludePaths ==
    /\ pc = "call"
    /\ pc' = "returned"
    /\ out' = [kind |-> "resolved_exclude_paths", val |-> resolved_exclude_paths(config)]
    /\ ResolverFrame

CallResolvedSkipPaths ==
    /\ pc = "call"
    /\ pc' = "returned"
    /\ out' = [kind |-> "resolved_skip_paths", val |-> resolved_skip_paths(config)]
    /\ ResolverFrame

CallResolvePatterns ==
    /\ pc = "call"
    /\ pc' = "returned"
    /\ out' = [kind |-> "resolve_patterns",
               val |-> resolve_patterns(config.disable_patterns, config.custom_patterns)]
    /\ ResolverFrame

NextResolve == CallResolvedExcludePaths \/ CallResolvedSkipPaths \/ CallResolvePatterns

SpecResolve == InitResolve /\ [][NextResolve]_vars

(***************************************************************************)
(* Vocabulary of the properties.                                           *)
(***************************************************************************)
\* the pattern matches are the first NPat matches: the exclude-path pass comes last
NPat == Len(mroot)

PatternMatchPaths == { matches[i].path : i \in 1..NPat }

\* the scan roots, expanded
Roots == { expand_tilde(config.scan_roots[k]) : k \in 1..Len(config.scan_roots) }

VendorVendor == Vendor \o <<"vendor">>

\* an entry named exactly s exists in directory d
NamedIn(d, s) == Append(d, s) \in DOMAIN fs

\* the active patterns, as a set
ActivePatterns ==
    { builtin_patterns[k] : k \in { n \in 1..Len(builtin_patterns) :
          builtin_patterns[n].name \notin Range(config.disable_patterns) } }
    \cup Range(config.custom_patterns)

Min(S) == CHOOSE x \in S : \A y \in S : x <= y

NoDuplicates(s) == \A i, j \in 1..Len(s) : s[i] = s[j] => i = j

\* the exclude paths that resolve, as strings, stated from the configuration
ResolvedStrings ==
    (Range(builtin_exclude_paths) \ Range(config.disable_exclude_paths))
    \cup Range(config.extra_exclude_paths)

\* how many matches tagged "exclude_path" carry path p
ExcludeCount(p) ==
    Cardinality({ j \in (NPat + 1)..Len(matches) : matches[j] = ScanMatch(p, "exclude_path") })

(***************************************************************************)
(* C1.  As claimed: no pattern match lies strictly beneath another pattern *)
(* match of the same run, whatever the scan roots.                         *)
(***************************************************************************)
C1_NoNestedMatch ==
    \A i, j \in 1..NPat : ~Beneath(matches[j].path, matches[i].path)

(***************************************************************************)
(* C1, amended.  A directory that is visited or reported strictly beneath  *)
(* a reported pattern match is at or under a scan root that itself lies    *)
(* strictly inside the matched directory; a walk that starts at or above   *)
(* a matched directory visits and reports nothing under it.                *)
(***************************************************************************)
C1_NoNestedMatchUnlessRootInside ==
    \A i \in 1..NPat : \A v \in visited \cup PatternMatchPaths :
        Beneath(v, matches[i].path)
            => \E r \in Roots : Beneath(r, matches[i].path) /\ IsPrefix(r, v)

\* two roots walked, ~/vendor matched, and the matchable ~/vendor/vendor left unvisited
C1_Witness ==
    /\ pc = "done"
    /\ Len(config.scan_roots) = 2
    /\ Vendor \in PatternMatchPaths
    /\ is_dir(VendorVendor)
    /\ NamedIn(Vendor, "composer.json")
    /\ VendorVendor \notin visited

(***************************************************************************)
(* C2.  No directory path appears twice among the pattern matches of one   *)
(* run, also when a root is listed twice or lies inside another root.      *)
(***************************************************************************)
C2_NoDuplicateMatch ==
    \A i, j \in 1..NPat : matches[i].path = matches[j].path => i = j

\* the same root listed twice, with a match under it
C2_Witness ==
    /\ pc = "done"
    /\ Len(config.scan_roots) = 2
    /\ config.scan_roots[1] = config.scan_roots[2]
    /\ NPat >= 1

C7_SkipBeforeMatch ==
    \A i \in 1..NPat : matches[i].path \notin skip_set

\* ~/vendor is in the skip set, is a directory with composer.json in its
\* parent and composer active, and the walker has reached it
C7_Witness ==
    /\ pc = "done"
    /\ Vendor \in skip_set
    /\ Vendor \in visited
    /\ is_dir(Vendor)
    /\ NamedIn(Home, "composer.json")
    /\ config.disable_patterns = <<>>

(***************************************************************************)
(* C8.  As claimed: at the end of the run every resolved exclude path that *)
(* exists has exactly one match tagged "exclude_path", and one that does   *)
(* not exist has none.                                                     *)
(***************************************************************************)
C8_ExcludePathExactlyOnce ==
    pc = "done" =>
        \A s \in ResolvedStrings :
            ExcludeCount(expand_tilde(s)) = IF expand_tilde(s) \in DOMAIN fs THEN 1 ELSE 0

(***************************************************************************)
(* C8, amended.  At the end of the run every resolved exclude-path string  *)
(* whose path exists has produced exactly one match tagged "exclude_path", *)
(* so a path has as many such matches as there are distinct resolved       *)
(* strings that expand to it (one when only one string names it); a path   *)
(* that does not exist has none, and no other path has any.                *)
(***************************************************************************)
C8_ExcludePathOncePerString ==
    pc = "done" =>
        /\ \A s \in ResolvedStrings :
              ExcludeCount(expand_tilde(s)) =
                  IF expand_tilde(s) \in DOMAIN fs
                  THEN Cardinality({ t \in ResolvedStrings :
                                        expand_tilde(t) = expand_tilde(s) })
                  ELSE 0
        /\ \A j \in (NPat + 1)..Len(matches) :
              /\ matches[j].pattern_name = "exclude_path"
              /\ \E s \in ResolvedStrings : expand_tilde(s) = matches[j].path

\* the extra ~/vendor was reached and pruned by the walk, and it and the
\* built-in ~/.cargo are each reported once
C8_Witness ==
    /\ pc = "done"
    /\ config.extra_exclude_paths = << <<"~", "vendor">> >>
    /\ Vendor \in visited
    /\ ExcludeCount(Vendor) = 1
    /\ ExcludeCount(Home \o <<".cargo">>) = 1
    /\ NPat = 0

(***************************************************************************)
(* C9.  As claimed: resolved_exclude_paths never contains a built-in that  *)
(* is disabled, contains every built-in that is not and every extra, and   *)
(* contains no string twice.                                               *)
(***************************************************************************)
C9_ResolvedExcludePaths ==
    out.kind = "resolved_exclude_paths" =>
        LET D2 == Range(config.disable_exclude_paths)
            E  == Range(config.extra_exclude_paths)
            B  == Range(builtin_exclude_paths)
        IN  /\ \A b \in B \cap D2 : ~Contains(out.val, b)
            /\ \A b \in B \ D2 : Contains(out.val, b)
            /\ \A e \in E : Contains(out.val, e)
            /\ NoDuplicates(out.val)

(***************************************************************************)
(* C9, amended.  resolved_exclude_paths never contains a disabled built-in *)
(* unless that path is also listed as an extra; it contains every built-in *)
(* that is not disabled and every extra, and no string twice.              *)
(***************************************************************************)
C9_ResolvedExcludePathsExtrasWin ==
    out.kind = "resolved_exclude_paths" =>
        LET D2 == Range(config.disable_exclude_paths)
            E  == Range(config.extra_exclude_paths)
            B  == Range(builtin_exclude_paths)
        IN  /\ \A b \in (B \cap D2) \ E : ~Contains(out.val, b)
            /\ \A b \in B \ D2 : Contains(out.val, b)
            /\ \A e \in E : Contains(out.val, e)
            /\ NoDuplicates(out.val)

\* a built-in is disabled and the same extra is given twice
C9_Witness ==
    /\ out.kind = "resolved_exclude_paths"
    /\ config.disable_exclude_paths = << <<"~", ".cargo">> >>
    /\ config.extra_exclude_paths = << <<"~", "Movies">>, <<"~", "Movies">> >>
    /\ ~Contains(out.val, <<"~", ".cargo">>)

(***************************************************************************)
(* C10.  With no custom patterns, resolve_patterns(D, []) holds no pattern *)
(* whose name is in D and holds every built-in whose name is not in D.     *)
(***************************************************************************)
C10_ResolvePatternsDisable ==
    (out.kind = "resolve_patterns" /\ config.custom_patterns = <<>>) =>
        LET D == Range(config.disable_patterns)
        IN  /\ \A i \in 1..Len(out.val) : out.val[i].name \notin D
            /\ \A k \in 1..Len(builtin_patterns) :
                  builtin_patterns[k].name \notin D => Contains(out.val, builtin_patterns[k])

\* two built-ins and an unknown name are disabled
C10_Witness ==
    /\ out.kind = "resolve_patterns"
    /\ config.custom_patterns = <<>>
    /\ Range(config.disable_patterns) = { "node", "cargo", "no-such-pattern" }
    /\ Len(out.val) = Len(builtin_patterns) - 2

(***************************************************************************)
(* C11.  As claimed: resolved_skip_paths is the system-skip catalog        *)
(* followed by the resolved exclude paths not already present; the system  *)
(* paths and every resolved exclude path are present, and a disabled       *)
(* built-in exclude path is absent.                                        *)
(***************************************************************************)
C11_ResolvedSkipPaths ==
    out.kind = "resolved_skip_paths" =>
        LET sys == Range(SYSTEM_SKIP_PATHS)
            D2  == Range(config.disable_exclude_paths)
            B   == Range(builtin_exclude_paths)
        IN  /\ out.val = SYSTEM_SKIP_PATHS
                           \o SelectSeq(resolved_exclude_paths(config), LAMBDA p : p \notin sys)
            /\ \A p \in sys \cup ResolvedStrings : Contains(out.val, p)
            /\ \A b \in B \cap D2 : ~Contains(out.val, b)

(***************************************************************************)
(* C11, amended.  The same, except that a disabled built-in exclude path   *)
(* is absent only when it is not also listed as an extra exclude path.     *)
(***************************************************************************)
C11_ResolvedSkipPathsExtrasWin ==
    out.kind = "resolved_skip_paths" =>
        LET sys == Range(SYSTEM_SKIP_PATHS)
            D2  == Range(config.disable_exclude_paths)
            E   == Range(config.extra_exclude_paths)
            B   == Range(builtin_exclude_paths)
        IN  /\ out.val = SYSTEM_SKIP_PATHS
                           \o SelectSeq(resolved_exclude_paths(config), LAMBDA p : p \notin sys)
            /\ \A p \in sys \cup ResolvedStrings : Contains(out.val, p)
            /\ \A b \in (B \cap D2) \ E : ~Contains(out.val, b)

\* ~/.cargo is disabled and a system path is given again as an extra
C11_Witness ==
    /\ out.kind = "resolved_skip_paths"
    /\ config.disable_exclude_paths = << <<"~", ".cargo">> >>
    /\ config.extra_exclude_paths = << <<"~", "Library">> >>
    /\ ~Contains(out.val, <<"~", ".cargo">>)
    /\ Len(out.val) = Len(SYSTEM_SKIP_PATHS) + Len(builtin_exclude_paths) - 1

(***************************************************************************)
(* C14.  resolve_patterns(D, C) is the built-in catalog without the        *)
(* patterns named in D, in catalog order, followed by every custom pattern *)
(* of C in configured order: an unknown name in D changes nothing, and no  *)
(* custom pattern is dropped, whatever it shares with a built-in or D.     *)
(***************************************************************************)
C14_ResolvePatternsExact ==
    out.kind = "resolve_patterns" =>
        LET D    == Range(config.disable_patterns)
            C    == config.custom_patterns
            kept == { k \in 1..Len(builtin_patterns) : builtin_patterns[k].name \notin D }
            n    == Cardinality(kept)
        IN  /\ Len(out.val) = n + Len(C)
            /\ \A i \in 1..n : out.val[i] = builtin_patterns[Nth(kept, i)]
            /\ \A j \in 1..Len(C) : out.val[n + j] = C[j]
            /\ n = Len(builtin_patterns)
                  - Cardinality({ p \in Range(builtin_patterns) : p.name \in D })

\* node and an unknown name are disabled, and a custom pattern equal to the
\* built-in node is configured: it is kept
C14_Witness ==
    /\ out.kind = "resolve_patterns"
    /\ Range(config.disable_patterns) = { "node", "no-such-pattern" }
    /\ config.custom_patterns = << Pattern("node", "node_modules", "package.json") >>
    /\ out.val[Len(out.val)].name = "node"
    /\ Len(out.val) = Len(builtin_patterns)

(***************************************************************************)
(* C18.  Feeding the output of resolved_exclude_paths back as              *)
(* extra_exclude_paths, with the same disables, yields the same list.      *)
(* (That two calls on the same input agree holds of any function and is    *)
(* not a property a check can refute.)                                     *)
(***************************************************************************)
C18_ResolveIdempotent ==
    out.kind = "resolved_exclude_paths" =>
        resolved_exclude_paths([config EXCEPT !.extra_exclude_paths = out.val]) = out.val

\* a built-in is disabled, and given again as an extra next to another extra
C18_Witness ==
    /\ out.kind = "resolved_exclude_paths"
    /\ config.disable_exclude_paths = << <<"~", ".cargo">> >>
    /\ config.extra_exclude_paths = << <<"~", ".cargo">>, <<"~", "Movies">> >>
    /\ Len(out.val) = Len(builtin_exclude_paths) + 1

(***************************************************************************)
(* Vocabulary of C12 and C13.                                              *)
(***************************************************************************)
\* the configured roots that exist, in configured order
ExistingRoots ==
    SelectSeq(config.scan_roots, LAMBDA r : expand_tilde(r) \in DOMAIN fs)

\* an active pattern has d's basename as directory and its sentinel next to d
Matchable(d) ==
    /\ Len(d) > 1
    /\ \E p \in ActivePatterns :
          /\ p.directory = d[Len(d)]
          /\ NamedIn(SubSeq(d, 1, Len(d) - 1), p.sentinel)

\* the directories a walk from r alone reports: matchable, not skipped, and
\* with no skipped or matchable directory between r and them
MatchesFrom(r) ==
    { d \in DOMAIN fs :
        /\ fs[d] = "dir"
        /\ IsPrefix(r, d)
        /\ d \notin skip_set
        /\ Matchable(d)
        /\ \A a \in DOMAIN fs :
              (IsPrefix(r, a) /\ Beneath(d, a)) => (a \notin skip_set /\ ~Matchable(a)) }

\* the matches appended by the exclude-path pass
ExcludeTail == SubSeq(matches, NPat + 1, Len(matches))

(***************************************************************************)
(* C12.  A scan root that does not exist never aborts the scan: the run    *)
(* ends, and its result is what the existing roots alone determine -- the  *)
(* pattern matches are the directories reported from the existing roots,   *)
(* each found under the first existing root that reports it, no match is   *)
(* attributed to a missing root, and the exclude-path matches follow.      *)
(***************************************************************************)
C12_MissingRootSkipped ==
    pc = "done" =>
        /\ PatternMatchPaths =
              UNION { MatchesFrom(expand_tilde(ExistingRoots[k])) : k \in 1..Len(ExistingRoots) }
        /\ \A i \in 1..NPat :
              LET r == config.scan_roots[mroot[i]]
                  first == Min({ k \in 1..Len(ExistingRoots) :
                                   matches[i].path \in MatchesFrom(expand_tilde(ExistingRoots[k])) })
              IN  /\ expand_tilde(r) \in DOMAIN fs
                  /\ r = ExistingRoots[first]
        /\ ExcludeTail = exclude_matches([config EXCEPT !.scan_roots = ExistingRoots])

\* the first root is missing, the second exists and a match is found under it
C12_Witness ==
    /\ pc = "done"
    /\ Len(config.scan_roots) = 2
    /\ expand_tilde(config.scan_roots[1]) \notin DOMAIN fs
    /\ expand_tilde(config.scan_roots[2]) \in DOMAIN fs
    /\ NPat = 1
    /\ mroot[1] = 2

(***************************************************************************)
(* C13.  Output order: the pattern matches come in the order of the roots  *)
(* they were found under, each lying at or under its root, and the matches *)
(* tagged exclude_path come after all of them, one for each resolved       *)
(* exclude path that exists, in the order of resolved_exclude_paths.       *)
(***************************************************************************)
C13_OutputOrder ==
    /\ \A i, j \in 1..NPat : i < j => mroot[i] <= mroot[j]
    /\ \A i \in 1..NPat :
          /\ IsPrefix(expand_tilde(config.scan_roots[mroot[i]]), matches[i].path)
          /\ matches[i].pattern_name # "exclude_path"
    /\ pc # "done" => Len(matches) = NPat
    /\ pc = "done" =>
          LET xs  == resolved_exclude_paths(config)
              idx == { k \in 1..Len(xs) : expand_tilde(xs[k]) \in DOMAIN fs }
          IN  /\ Len(ExcludeTail) = Cardinality(idx)
              /\ \A i \in 1..Len(ExcludeTail) :
                    ExcludeTail[i] = ScanMatch(expand_tilde(xs[Nth(idx, i)]), "exclude_path")

\* two pattern matches found under two different roots, the deeper one first,
\* and an exclude-path match after them
C13_Witness ==
    /\ pc = "done"
    /\ NPat = 2
    /\ mroot = << 1, 2 >>
    /\ matches[1].path = VendorVendor
    /\ matches[2].path = Vendor
    /\ Len(ExcludeTail) >= 1

(***************************************************************************)
(* expand_tilde and contract_tilde on strings (src/src/config.rs:194-218). *)
(* Here a string is the sequence of its characters, so that strip_prefix,  *)
(* PathBuf::join and format! work on what the code hands them; a PathBuf   *)
(* is the string it was built from, and two PathBufs are equal when their  *)
(* components are.                                                         *)
(***************************************************************************)
MaxStr == 5

\* the characters a string is drawn from
Alphabet == { "~", "/", "h", "a" }

\* std::env::var("HOME"), as characters: /h
HOME == << "/", "h" >>

\* str::strip_prefix
strip_prefix(s, p) ==
    IF IsPrefix(p, s)
    THEN [some |-> TRUE, rest |-> SubSeq(s, Len(p) + 1, Len(s))]
    ELSE [some |-> FALSE]

\* Path::join (PathBuf::push): an absolute argument replaces the base, a
\* separator is added unless the base ends with one
join(base, rest) ==
    IF rest # <<>> /\ rest[1] = "/" THEN rest
    ELSE IF base = <<>> \/ base[Len(base)] = "/" THEN base \o rest
    ELSE base \o << "/" >> \o rest

\* the non-empty names between separators, in order
RECURSIVE names(_)
names(s) ==
    IF s = <<>> THEN <<>>
    ELSE IF s[1] = "/" THEN names(Tail(s))
    ELSE LET n == CHOOSE k \in 1..Len(s) :
                    /\ \A i \in 1..k : s[i] # "/"
                    /\ (k = Len(s) \/ s[k + 1] = "/")
         IN  << SubSeq(s, 1, n) >> \o names(SubSeq(s, n + 1, Len(s)))

\* Path::components: the root, then the names; PathBuf equality compares these
components(s) ==
    (IF s # <<>> /\ s[1] = "/" THEN << << "/" >> >> ELSE <<>>) \o names(s)

\* expand_tilde, on the characters of its argument
expand_tilde_str(path) ==
    LET r == strip_prefix(path, << "~", "/" >>)
    IN  IF r.some THEN join(HOME, r.rest)
        ELSE IF path = << "~" >> THEN HOME
        ELSE path

\* contract_tilde, HOME being set
contract_tilde(path) ==
    LET r == strip_prefix(path, HOME)
    IN  IF r.some /\ r.rest = <<>> THEN << "~" >>
        ELSE IF r.some /\ r.rest[1] = "/" THEN << "~" >> \o r.rest
        ELSE path

TildeFrame ==
    /\ UNCHANGED << config, fs, ri, start, stack, matches, excluded_dirs, visited, seen,
                    mroot, skip_set, arg >>
    /\ UNCHANGED runvars

InitTilde ==
    /\ config = [scan_roots |-> <<>>, extra_exclude_paths |-> <<>>,
                 disable_exclude_paths |-> <<>>, disable_patterns |-> <<>>,
                 custom_patterns |-> <<>>]
    /\ fs = Tree({}, "dir")
    /\ pc = "call"
    /\ ri = 1
    /\ start = FALSE
    /\ stack = <<>>
    /\ matches = <<>>
    /\ excluded_dirs = {}
    /\ visited = {}
    /\ seen = <<>>
    /\ mroot = <<>>
    /\ skip_set = {}
    /\ out = NoOut
    /\ arg \in SeqsUpTo(Alphabet, MaxStr)
    /\ dry_run = FALSE
    /\ tm_excluded = {}
    /\ state_file = <<>>
    /\ mi = 1
    /\ newly_excluded = <<>>
    /\ already_excluded_count = 0
    /\ error_count = 0
    /\ calls = {}

CallExpandTilde ==
    /\ pc = "call"
    /\ pc' = "returned"
    /\ out' = [kind |-> "expand_tilde", val |-> expand_tilde_str(arg)]
    /\ TildeFrame

CallContractTilde ==
    /\ pc = "call"
    /\ pc' = "returned"
    /\ out' = [kind |-> "contract_tilde", val |-> contract_tilde(arg)]
    /\ TildeFrame

NextTilde == CallExpandTilde \/ CallContractTilde

SpecTilde == InitTilde /\ [][NextTilde]_vars

(***************************************************************************)
(* C15.  As claimed: expand_tilde replaces a leading ~/ or an exact ~ by   *)
(* the home directory (the path is home followed by what came after the   *)
(* tilde) and returns every other string unchanged; contract_tilde turns   *)
(* home into ~, home followed by /rest into ~/rest, and returns every      *)
(* other string unchanged, home followed by other characters included.     *)
(***************************************************************************)
C15_TildeContract ==
    /\ out.kind = "expand_tilde" =>
          IF IsPrefix(<< "~", "/" >>, arg)
          THEN components(out.val) = components(HOME \o Tail(arg))
          ELSE IF arg = << "~" >> THEN out.val = HOME
          ELSE out.val = arg
    /\ out.kind = "contract_tilde" =>
          IF arg = HOME THEN out.val = << "~" >>
          ELSE IF IsPrefix(HOME \o << "/" >>, arg)
               THEN out.val = << "~" >> \o SubSeq(arg, Len(HOME) + 1, Len(arg))
          ELSE out.val = arg

(***************************************************************************)
(* sentinel_exists run on its own (src/src/scanner.rs:9-21), over          *)
(* directories whose names may hold glob metacharacters.                   *)
(***************************************************************************)
\* two sibling project directories, p1 and p[1]
GlobParents == { Home \o << "p1" >>, Home \o << "p[1]" >> }

\* the files a project directory may hold
GlobFiles == { "App.csproj", "App.fsproj", "composer.json" }

GlobSentinels ==
    { "*.csproj", "*.fsproj", "App.?sproj", "App.[cf]sproj", "App[.csproj", "composer.json" }

\* the trees: any of the two directories, each with any of the files
GlobTrees ==
    { [ q \in BaseNodes \cup x[1] \cup x[2] |-> IF q \in x[2] THEN "file" ELSE "dir" ] :
        x \in { y \in (SUBSET GlobParents) \X
                       (SUBSET { Append(p, f) : p \in GlobParents, f \in GlobFiles }) :
                  \A q \in y[2] : SubSeq(q, 1, Len(q) - 1) \in y[1] } }

InitGlob ==
    /\ config = [scan_roots |-> <<>>, extra_exclude_paths |-> <<>>,
                 disable_exclude_paths |-> <<>>, disable_patterns |-> <<>>,
                 custom_patterns |-> <<>>]
    /\ fs \in GlobTrees
    /\ pc = "call"
    /\ ri = 1
    /\ start = FALSE
    /\ stack = <<>>
    /\ matches = <<>>
    /\ excluded_dirs = {}
    /\ visited = {}
    /\ seen = <<>>
    /\ mroot = <<>>
    /\ skip_set = {}
    /\ out = NoOut
    /\ arg \in [ parent : { p \in GlobParents : is_dir(p) }, sentinel : GlobSentinels ]
    /\ dry_run = FALSE
    /\ tm_excluded = {}
    /\ state_file = <<>>
    /\ mi = 1
    /\ newly_excluded = <<>>
    /\ already_excluded_count = 0
    /\ error_count = 0
    /\ calls = {}

CallSentinelExists ==
    /\ pc = "call"
    /\ pc' = "returned"
    /\ out' = [kind |-> "sentinel_exists", val |-> sentinel_exists(arg.parent, arg.sentinel)]
    /\ UNCHANGED << config, fs, ri, start, stack, matches, excluded_dirs, visited, seen,
                    mroot, skip_set, arg >>
    /\ UNCHANGED runvars

NextGlob == CallSentinelExists

SpecGlob == InitGlob /\ [][NextGlob]_vars

(***************************************************************************)
(* C16.  As claimed: a sentinel holding `*`, `?` or `[` is satisfied iff   *)
(* at least one entry of the parent directory matches it as a glob, and a  *)
(* sentinel without those characters iff an entry with exactly that name   *)
(* exists in the parent.                                                   *)
(***************************************************************************)
C16_SentinelModes ==
    out.kind = "sentinel_exists" =>
        LET entries == { file_name(q) : q \in read_dir(arg.parent) }
            s       == arg.sentinel
        IN  out.val =
              IF \E i \in 1..Len(chars[s]) : chars[s][i] \in { "*", "?", "[" }
              THEN \E n \in entries : valid_glob(chars[s]) /\ glob_match(chars[s], chars[n])
              ELSE s \in entries

(***************************************************************************)
(* cmd_run (src/src/main.rs:97-194): the loop over the scan result, the    *)
(* calls to tmutil (src/src/excluder.rs) and the saved run state           *)
(* (src/src/state.rs).  Time Machine's store is the set of paths for       *)
(* which `tmutil isexcluded` answers [Excluded]; a tmutil call may fail.   *)
(***************************************************************************)
MaxMatches == 2

\* the scan results a run is given: a pattern match and two exclude paths
RunMatchChoices ==
    { ScanMatch(Home \o << "proj", "node_modules" >>, "node"),
      ScanMatch(Home \o << ".cargo" >>, "exclude_path"),
      ScanMatch(<< "/", "opt", "homebrew" >>, "exclude_path") }

\* what dir_size returns: the first word of `du -sh`, or "?" when du fails
Sizes == { "1.0M", "?" }

ExcludedEntry(p, n, sz) == [path |-> p, pattern |-> n, size |-> sz]

RunState(lr, ec, ac, es) ==
    [last_run |-> lr, excluded_count |-> ec, already_excluded_count |-> ac, entries |-> es]

\* the state file a previous run may have left
EarlierState == RunState("earlier", 0, 1, <<>>)

\* a state file cut short by a failed write: load_state cannot parse it
Unparsable == RunState("unparsable", 0, 0, <<>>)

\* state_path()
state_path == Home \o << ".local", "state", "tmignore", "state.json" >>

\* contract_tilde(&m.path.to_string_lossy()): a path at or under home is shown with ~
display_path(p) ==
    IF IsPrefix(Home, p) THEN << "~" >> \o SubSeq(p, Len(Home) + 1, Len(p)) ELSE p

\* excluder::is_excluded when tmutil runs: its answer holds "[Excluded]"
is_excluded(p) == p \in tm_excluded

\* the match the loop is at
m == matches[mi]

InitRun ==
    /\ config = [scan_roots |-> <<>>, extra_exclude_paths |-> <<>>,
                 disable_exclude_paths |-> <<>>, disable_patterns |-> <<>>,
                 custom_patterns |-> <<>>]
    /\ fs = Tree({}, "dir")
    /\ pc = "loop"
    /\ ri = 1
    /\ start = FALSE
    /\ stack = <<>>
    /\ matches \in SeqsUpTo(RunMatchChoices, MaxMatches)
    /\ excluded_dirs = {}
    /\ visited = {}
    /\ seen = <<>>
    /\ mroot = <<>>
    /\ skip_set = {}
    /\ out = NoOut
    /\ arg = <<>>
    /\ dry_run \in BOOLEAN
    /\ tm_excluded \in SUBSET { c.path : c \in RunMatchChoices }
    /\ state_file \in { <<>>, << EarlierState >> }
    /\ mi = 1
    /\ newly_excluded = <<>>
    /\ already_excluded_count = 0
    /\ error_count = 0
    /\ calls = {}

\* what a turn of the loop leaves alone, whatever its branch
RunFrame ==
    UNCHANGED << config, fs, pc, ri, start, stack, matches, excluded_dirs, visited, seen,
                 mroot, skip_set, out, arg, dry_run, state_file >>

\* Ok(true) => already_excluded_count += 1
RunAlreadyExcluded ==
    /\ pc = "loop"
    /\ mi <= Len(matches)
    /\ is_excluded(m.path)
    /\ already_excluded_count' = already_excluded_count + 1
    /\ mi' = mi + 1
    /\ UNCHANGED << tm_excluded, newly_excluded, error_count, calls >>
    /\ RunFrame

\* Err(e) => error_count += 1: tmutil isexcluded could not be run
RunIsExcludedFails ==
    /\ pc = "loop"
    /\ mi <= Len(matches)
    /\ error_count' = error_count + 1
    /\ mi' = mi + 1
    /\ UNCHANGED << tm_excluded, newly_excluded, already_excluded_count, calls >>
    /\ RunFrame

\* Ok(false), dry_run: the entry is listed, nothing is excluded
RunDryRunEntry ==
    /\ pc = "loop"
    /\ mi <= Len(matches)
    /\ ~is_excluded(m.path)
    /\ dry_run
    /\ \E size \in Sizes :
          newly_excluded' =
              Append(newly_excluded, ExcludedEntry(display_path(m.path), m.pattern_name, size))
    /\ mi' = mi + 1
    /\ UNCHANGED << tm_excluded, already_excluded_count, error_count, calls >>
    /\ RunFrame

\* RunAddExclusion without the dry_run test
RunAddExclusion_in_dry_run ==
    /\ pc = "loop"
    /\ mi <= Len(matches)
    /\ ~is_excluded(m.path)
    /\ tm_excluded' = tm_excluded \cup { m.path }
    /\ calls' = calls \cup { [op |-> "add_exclusion", path |-> m.path, ok |-> TRUE] }
    /\ \E size \in Sizes :
          newly_excluded' =
              Append(newly_excluded, ExcludedEntry(display_path(m.path), m.pattern_name, size))
    /\ mi' = mi + 1
    /\ UNCHANGED << already_excluded_count, error_count >>
    /\ RunFrame

\* Ok(false), not dry_run, add_exclusion is Ok(()): the entry is listed
RunAddExclusion ==
    /\ pc = "loop"
    /\ mi <= Len(matches)
    /\ ~is_excluded(m.path)
    /\ ~dry_run
    /\ tm_excluded' = tm_excluded \cup { m.path }
    /\ calls' = calls \cup { [op |-> "add_exclusion", path |-> m.path, ok |-> TRUE] }
    /\ \E size \in Sizes :
          newly_excluded' =
              Append(newly_excluded, ExcludedEntry(display_path(m.path), m.pattern_name, size))
    /\ mi' = mi + 1
    /\ UNCHANGED << already_excluded_count, error_count >>
    /\ RunFrame

\* RunAddExclusionFails with the entry listed all the same
RunAddExclusionFails_lists_entry ==
    /\ pc = "loop"
    /\ mi <= Len(matches)
    /\ ~is_excluded(m.path)
    /\ ~dry_run
    /\ calls' = calls \cup { [op |-> "add_exclusion", path |-> m.path, ok |-> FALSE] }
    /\ \E size \in Sizes :
          newly_excluded' =
              Append(newly_excluded, ExcludedEntry(display_path(m.path), m.pattern_name, size))
    /\ mi' = mi + 1
    /\ UNCHANGED << tm_excluded, already_excluded_count, error_count >>
    /\ RunFrame

\* Ok(false), not dry_run, add_exclusion is Err: error_count += 1
RunAddExclusionFails ==
    /\ pc = "loop"
    /\ mi <= Len(matches)
    /\ ~is_excluded(m.path)
    /\ ~dry_run
    /\ calls' = calls \cup { [op |-> "add_exclusion", path |-> m.path, ok |-> FALSE] }
    /\ error_count' = error_count + 1
    /\ mi' = mi + 1
    /\ UNCHANGED << tm_excluded, newly_excluded, already_excluded_count >>
    /\ RunFrame

\* what the end of cmd_run leaves alone
FinishFrame ==
    UNCHANGED << config, fs, ri, start, stack, matches, excluded_dirs, visited, seen,
                 mroot, skip_set, out, arg, dry_run, tm_excluded, mi, newly_excluded,
                 already_excluded_count, error_count >>

\* the loop is over, dry_run: the summary is printed and nothing is saved
RunFinishDryRun ==
    /\ pc = "loop"
    /\ mi > Len(matches)
    /\ dry_run
    /\ pc' = "done"
    /\ UNCHANGED << state_file, calls >>
    /\ FinishFrame

\* the loop is over, not dry_run: save_state(&run_state) is Ok
RunSaveState ==
    /\ pc = "loop"
    /\ mi > Len(matches)
    /\ ~dry_run
    /\ state_file' = << RunState("now", Len(newly_excluded), already_excluded_count,
                                  newly_excluded) >>
    /\ calls' = calls \cup { [op |-> "save_state", path |-> state_path, ok |-> TRUE] }
    /\ pc' = "done"
    /\ FinishFrame

\* save_state(&run_state)? is Err: the directory could not be made (the file is
\* as it was) or the write failed (the file may be left cut short)
RunSaveStateFails ==
    /\ pc = "loop"
    /\ mi > Len(matches)
    /\ ~dry_run
    /\ state_file' \in { state_file, << Unparsable >> }
    /\ calls' = calls \cup { [op |-> "save_state", path |-> state_path, ok |-> FALSE] }
    /\ pc' = "failed"
    /\ FinishFrame

NextRun ==
    \/ RunAlreadyExcluded
    \/ RunIsExcludedFails
    \/ RunDryRunEntry
    \/ RunAddExclusion
    \/ RunAddExclusionFails
    \/ RunFinishDryRun
    \/ RunSaveState
    \/ RunSaveStateFails

SpecRun == InitRun /\ [][NextRun]_vars

Ln == Home \o << "ln" >>

\* ~/real/vendor
RealVendor == LinkTarget \o << "vendor" >>

WalkRootChoices == { << "~" >>, << "~", "ln" >>, << "~", "real" >> }

WalkConfigs ==
    { [scan_roots |-> r, extra_exclude_paths |-> <<>>, disable_exclude_paths |-> <<>>,
       disable_patterns |-> <<>>, custom_patterns |-> <<>>] :
        r \in SeqsUpTo(WalkRootChoices, MaxRoots) \ { <<>> } }

WalkFiles == { Home \o << "composer.json" >>, LinkTarget \o << "composer.json" >> }

\* the nodes a tree may hold besides / and ~
WalkNodes == WalkFiles \cup { Vendor, LinkTarget, RealVendor, Ln }

\* the trees: ~/vendor is a directory, a directory that cannot be read, or a
\* link; ~/ln is a link; both links point to ~/real, there or not
WalkTrees ==
    { [ p \in BaseNodes \cup x[1] |->
          IF p = Vendor THEN x[2]
          ELSE IF p = Ln THEN "link"
          ELSE IF p \in WalkFiles THEN "file"
          ELSE "dir" ] :
        x \in { y \in (SUBSET WalkNodes) \X { "dir", "denied", "link" } :
                  /\ \A p \in y[1] : Beneath(p, LinkTarget) => LinkTarget \in y[1]
                  /\ Vendor \notin y[1] => y[2] = "dir" } }

InitWalk ==
    /\ config \in WalkConfigs
    /\ fs \in WalkTrees
    /\ pc = "root"
    /\ ri = 1
    /\ start = FALSE
    /\ stack = <<>>
    /\ matches = <<>>
    /\ excluded_dirs = {}
    /\ visited = {}
    /\ seen = <<>>
    /\ mroot = <<>>
    /\ skip_set = build_skip_set(config)
    /\ out = NoOut
    /\ NoRun

NextWalk == RootMissing \/ RootStart \/ Visit \/ VisitError \/ WalkEnd \/ ExcludePass

SpecWalk == InitWalk /\ [][NextWalk]_vars

(***************************************************************************)
(* C19.  A traversal error does not abort the scan: once the walk of a     *)
(* root is over, every readable directory under it that an active pattern  *)
(* matches is reported, provided the directories from the root down to it  *)
(* are readable, none of them is skipped or matched -- whatever failed     *)
(* elsewhere under this root or under an earlier one.                      *)
(***************************************************************************)
C19_ErrorsDoNotAbort ==
    \A k \in 1..Len(config.scan_roots) :
        ri > k =>
        LET r == expand_tilde(config.scan_roots[k])
        IN  \A d \in DOMAIN fs :
              ( /\ fs[d] = "dir"
                /\ IsPrefix(r, d)
                /\ \A a \in DOMAIN fs :
                      (IsPrefix(r, a) /\ IsPrefix(a, d)) => (fs[a] = "dir" /\ a \notin skip_set)
                /\ \A a \in DOMAIN fs :
                      (IsPrefix(r, a) /\ Beneath(d, a)) => a \notin PatternMatchPaths
                /\ Matchable(d) )
              => d \in PatternMatchPaths

\* ~/vendor cannot be read and is not matched: the walk opened it, met the
\* error, and still reported ~/real/vendor
C19_Witness ==
    /\ pc = "done"
    /\ config.scan_roots = << << "~" >> >>
    /\ fs[Home] = "dir"
    /\ Vendor \in DOMAIN fs
    /\ fs[Vendor] = "denied"
    /\ Vendor \in visited
    /\ Vendor \notin PatternMatchPaths
    /\ RealVendor \in PatternMatchPaths

(***************************************************************************)
(* C20.  As claimed: no symbolic link is reported as a pattern match, and  *)
(* nothing that lies beneath a symbolic link is visited.                   *)
(***************************************************************************)
C20_NoSymlinkFollowed ==
    /\ \A i \in 1..NPat : file_type(matches[i].path) # "link"
    /\ \A v \in visited : link_ancestors(v) = {}

(***************************************************************************)
(* C20, amended.  No symbolic link is reported as a pattern match, and a   *)
(* link met below a scan root is never descended into: whatever is visited *)
(* beneath a symbolic link is beneath a configured scan root that is that  *)
(* link.                                                                   *)
(***************************************************************************)
C20_NoSymlinkFollowedBelowRoot ==
    /\ \A i \in 1..NPat : file_type(matches[i].path) # "link"
    /\ \A v \in visited : \A k \in link_ancestors(v) : SubSeq(v, 1, k) \in Roots

\* ~/vendor is a link to a directory with entries, composer.json lies next to
\* it, and the walk from ~ yielded the link without reporting or opening it
C20_Witness ==
    /\ pc = "done"
    /\ config.scan_roots = << << "~" >> >>
    /\ Vendor \in DOMAIN fs
    /\ fs[Vendor] = "link"
    /\ NamedIn(Home, "composer.json")
    /\ RealVendor \in DOMAIN fs
    /\ Vendor \in visited
    /\ Vendor \notin PatternMatchPaths
    /\ VendorVendor \notin visited

(***************************************************************************)
(* scan_optimized run to its end: trees with a link that points back to    *)
(* its own parent directory (a cycle), a directory that cannot be read,    *)
(* and roots that are missing, repeated, or a link into the tree another   *)
(* root covers.  The scan is one sequential loop: a step that can be taken *)
(* is taken.                                                               *)
(***************************************************************************)
\* ~/real/back: a link to ~/real, the directory it lies in
RealBack == LinkTarget \o << "back" >>

TermRootChoices == { << "~" >>, << "~", "real", "back" >>, << "~", "missing" >> }

TermConfigs ==
    { [scan_roots |-> r, extra_exclude_paths |-> <<>>, disable_exclude_paths |-> <<>>,
       disable_patterns |-> <<>>, custom_patterns |-> <<>>] :
        r \in SeqsUpTo(TermRootChoices, MaxRoots) \ { <<>> } }

\* the nodes a tree may hold besides /, ~ and ~/real
TermNodes == { RealBack, Ln, RealVendor, LinkTarget \o << "composer.json" >> }

\* the trees: ~/real/vendor is a directory, readable or not
TermTrees ==
    { [ p \in BaseNodes \cup { LinkTarget } \cup x[1] |->
          IF p \in { RealBack, Ln } THEN "link"
          ELSE IF p = RealVendor THEN x[2]
          ELSE IF p = LinkTarget \o << "composer.json" >> THEN "file"
          ELSE "dir" ] :
        x \in { y \in (SUBSET TermNodes) \X { "dir", "denied" } :
                  RealVendor \notin y[1] => y[2] = "dir" } }

InitTerm ==
    /\ config \in TermConfigs
    /\ fs \in TermTrees
    /\ pc = "root"
    /\ ri = 1
    /\ start = FALSE
    /\ stack = <<>>
    /\ matches = <<>>
    /\ excluded_dirs = {}
    /\ visited = {}
    /\ seen = <<>>
    /\ mroot = <<>>
    /\ skip_set = build_skip_set(config)
    /\ out = NoOut
    /\ NoRun

SpecTerm == InitTerm /\ [][NextWalk]_vars /\ WF_vars(NextWalk)

(***************************************************************************)
(* C21.  scan_optimized terminates: every run reaches the return of the    *)
(* match list, and the walk of a root yields no path twice.                *)
(***************************************************************************)
C21_Terminates ==
    /\ <>(pc = "done")
    /\ [](\A p \in DOMAIN seen : seen[p] <= 1)

\* two roots were walked over a tree with the link cycle and a directory that
\* cannot be read: the root that is the cycle link was followed, the same
\* link met below it was yielded and left alone
C21_Witness ==
    /\ pc = "done"
    /\ Len(config.scan_roots) = 2
    /\ RealBack \in DOMAIN fs
    /\ RealVendor \in DOMAIN fs
    /\ fs[RealVendor] = "denied"
    /\ RealBack \o << "back" >> \in visited
    /\ RealBack \o << "back", "back" >> \notin visited
    /\ RealBack \o << "vendor" >> \in visited

(***************************************************************************)
(* C22.  No path is reported both as a pattern match and as an             *)
(* exclude_path match: no pattern match is in the skip set, and every      *)
(* exclude_path match is.                                                  *)
(***************************************************************************)
C22_PatternAndExcludeDisjoint ==
    /\ \A i \in 1..NPat : \A j \in (NPat + 1)..Len(matches) :
          matches[i].path # matches[j].path
    /\ \A i \in 1..NPat : matches[i].path \notin skip_set
    /\ \A j \in (NPat + 1)..Len(matches) : matches[j].path \in skip_set

\* ~/vendor is an exclude path that an active pattern matches too: the walk
\* met it, it is reported once, as exclude_path, next to a pattern match
C22_Witness ==
    /\ pc = "done"
    /\ Vendor \in visited
    /\ Matchable(Vendor)
    /\ NPat >= 1
    /\ \E j \in (NPat + 1)..Len(matches) : matches[j].path = Vendor

(***************************************************************************)
(* C23.  Accounting in cmd_run: every match handled so far is counted once *)
(* as newly excluded, already excluded or error, so at the end of a run    *)
(* the three add up to the number of matches; and the RunState a run has   *)
(* saved has excluded_count equal to the number of its entries, each entry *)
(* naming a path on which add_exclusion succeeded in this run.             *)
(***************************************************************************)
C23_Accounting ==
    /\ Len(newly_excluded) + already_excluded_count + error_count = mi - 1
    /\ pc \in { "done", "failed" } =>
          Len(newly_excluded) + already_excluded_count + error_count = Len(matches)
    /\ (pc = "done" /\ ~dry_run) =>
          LET saved == state_file[1]
          IN  /\ saved.excluded_count = Len(saved.entries)
              /\ saved.already_excluded_count = already_excluded_count
              /\ \A k \in 1..Len(saved.entries) :
                    \E c \in calls :
                        /\ c.op = "add_exclusion"
                        /\ c.ok
                        /\ display_path(c.path) = saved.entries[k].path
                        /\ c.path \in tm_excluded

\* a run that was not a dry run is over and has saved its state: one match was
\* excluded, for the other add_exclusion failed
C23_Witness ==
    /\ pc = "done"
    /\ ~dry_run
    /\ Len(matches) = 2
    /\ Len(newly_excluded) = 1
    /\ error_count = 1
    /\ \E c \in calls : c.op = "add_exclusion" /\ ~c.ok
    /\ state_file[1].excluded_count = 1
====
